---- MODULE Spec2Model ----
(***************************************************************************)
(* Model of the Q-learning supplier ranking API (ranking_engine/api_views). *)
(*                                                                         *)
(* Numbers: every score, reward and Q-value is a fixed-point number with    *)
(* two decimals, held as an integer number of hundredths (5.84 is 584).    *)
(* quality_rating is held in tenths (0.9 is 9); days and issues are whole. *)
(* A request field that is absent is None.                                 *)
(***************************************************************************)
EXTENDS Integers, Sequences, FiniteSets, TLC

(* ------------------------------ bounds -------------------------------- *)
NumSuppliers == 2      \* known suppliers are 1..NumSuppliers
MaxLearn == 2          \* learning requests over one run: feedback requests, each
                       \* on its own thread, plus batch-training iterations

(* --------------------------- configuration ---------------------------- *)
Scale == 100           \* fixed-point unit: hundredths
Alpha == 10            \* learning rate 0.1, in hundredths
Gamma == 90            \* discount factor 0.9, in hundredths
LowBelow == 400        \* a score below 4.0 is LOW
HighAbove == 700       \* a score above 7.0 is HIGH
DefaultPrice == 700    \* price_score of a feedback event, 7.0

None == -1000          \* an absent request field (request.data.get -> None)

Suppliers == 1..NumSuppliers
UnknownSupplier == NumSuppliers + 1   \* an id the supplier directory does not hold
Workers == 1..MaxLearn

Min(a, b) == IF a < b THEN a ELSE b
Max(a, b) == IF a > b THEN a ELSE b

\* Python truthiness of a request field: None and 0 are falsy.
Truthy(x) == x # None /\ x # 0

(* ------------------------- supplier directory ------------------------- *)
\* SupplierService.get_supplier: <<record>>, or <<>> when the id is unknown.
Cities == {"colombo", "kandy"}
CityOf(s) == IF s % 2 = 1 THEN "colombo" ELSE "kandy"
get_supplier(id) ==
    IF id \in Suppliers THEN <<[id |-> id, city |-> CityOf(id)]>> ELSE <<>>

(* ------------------------------ metrics ------------------------------- *)
Clamp(x) == Min(Max(x, 1 * Scale), 10 * Scale)

\* overall_score = 0.25 * each of the four component scores.
Overall(q, d, p, s) == (q * 25 + d * 25 + p * 25 + s * 25) \div 100

\* FeedbackView.post, "Create metrics from feedback".
\* quality_rating in tenths, so float(quality_rating) * 10 is rating * Scale / 10 * 10.
\* A buggy service score that takes one point, not two, per issue.
FeedbackServiceScorePerIssue(issues) == Clamp(10 * Scale - issues * Scale)
FeedbackServiceScore(issues) == Clamp(10 * Scale - issues * 2 * Scale)
FeedbackDeliveryScore(days) ==
    LET d == IF Truthy(days) THEN days ELSE 1
    IN  Clamp(10 * Scale - Min(d * Scale, 10 * Scale))
FeedbackMetrics(quality_rating, delivery_time_days, issues) ==
    LET q == Clamp(quality_rating * 10 * (Scale \div 10))
        d == FeedbackDeliveryScore(delivery_time_days)
        p == DefaultPrice
        s == FeedbackServiceScore(issues)
    IN  [quality_score |-> q, delivery_score |-> d, price_score |-> p,
         service_score |-> s, overall_score |-> Overall(q, d, p, s)]

(* ---------------------------- StateMapper ----------------------------- *)
Level(score) ==
    IF score < LowBelow THEN "LOW" ELSE IF score > HighAbove THEN "HIGH" ELSE "MEDIUM"
get_state_from_metrics(m) ==
    <<Level(m.quality_score), Level(m.delivery_score),
      Level(m.price_score), Level(m.service_score)>>

(* -------------------------- action vocabulary ------------------------- *)
\* QLearningAction rows. A name that starts with "RANK_TIER_" is a rank tier.
RankTierNames == {"RANK_TIER_1", "RANK_TIER_2"}
IsRankTier(a) == a \in RankTierNames
\* The vocabularies the action table may be configured with.
Vocabularies ==
    { <<"RANK_TIER_1", "RANK_TIER_2">>,
      <<"FLAG_FOR_REVIEW", "RANK_TIER_1">>,
      <<"FLAG_FOR_REVIEW">> }

(* ------------------------------ QTable -------------------------------- *)
\* QTableEntry rows, in insertion order: [state, action, q_value, update_count].
Rows(tbl, s, a) == {i \in DOMAIN tbl : tbl[i].state = s /\ tbl[i].action = a}
HasEntry(tbl, s, a) == Rows(tbl, s, a) # {}
Entry(tbl, s, a) == tbl[CHOOSE i \in Rows(tbl, s, a) : \A j \in Rows(tbl, s, a) : i <= j]

\* QTable.get: the stored value, 0.0 when the key has no entry.
QGet(tbl, s, a) == IF HasEntry(tbl, s, a) THEN Entry(tbl, s, a).q_value ELSE 0

\* A buggy upsert that always inserts a fresh row.
UpsertInsertOnly(tbl, s, a, v) ==
    Append(tbl, [state |-> s, action |-> a, q_value |-> v, update_count |-> 1])
\* QTable.upsert: write the value and increment update_count, creating the entry
\* on its first write.
Upsert(tbl, s, a, v) ==
    IF HasEntry(tbl, s, a)
    THEN [i \in DOMAIN tbl |->
            IF i \in Rows(tbl, s, a)
            THEN [tbl[i] EXCEPT !.q_value = v, !.update_count = @ + 1]
            ELSE tbl[i]]
    ELSE Append(tbl, [state |-> s, action |-> a, q_value |-> v, update_count |-> 1])

(* ------------------------ SupplierEnvironment ------------------------- *)
\* get_actions: the full vocabulary, in its canonical order, for every state.
get_actions(vocab, state) == vocab

\* get_reward: the reward formula's coefficients are not fixed; a reward is any
\* of these values, or the lookup behind it fails.
RewardValues == {-200, 800}

(* --------------------------- RankingAgent ----------------------------- *)
RECURSIVE MaxQFrom(_, _, _, _)
MaxQFrom(tbl, s, acts, i) ==
    IF i = Len(acts) THEN QGet(tbl, s, acts[i])
    ELSE Max(QGet(tbl, s, acts[i]), MaxQFrom(tbl, s, acts, i + 1))
\* max over the candidate actions of Q(state, a'); 0 when there is none.
MaxQ(tbl, s, acts) == IF Len(acts) = 0 THEN 0 ELSE MaxQFrom(tbl, s, acts, 1)

\* The action with the maximum stored Q-value; the lowest index wins a tie.
BestAction(tbl, s, acts) ==
    acts[CHOOSE i \in DOMAIN acts :
            /\ QGet(tbl, s, acts[i]) = MaxQ(tbl, s, acts)
            /\ \A j \in DOMAIN acts : QGet(tbl, s, acts[j]) = MaxQ(tbl, s, acts) => i <= j]

\* new_q = old_q + alpha * (reward + gamma * max_next - old_q), rounded down to
\* the fixed-point grid.
QRule(old_q, reward, max_next) ==
    old_q + (Alpha * (reward * Scale + Gamma * max_next - old_q * Scale)) \div (Scale * Scale)

\* A buggy learn that updates from a stale value instead of the stored one.
learnStaleRead(tbl, vocab, state, action, reward, next_state) ==
    Upsert(tbl, state, action,
           QRule(0, reward, MaxQ(tbl, next_state, get_actions(vocab, next_state))))
\* agent.learn: one atomic read-modify-write of the key (state, action).
learn(tbl, vocab, state, action, reward, next_state) ==
    Upsert(tbl, state, action,
           QRule(QGet(tbl, state, action), reward,
                 MaxQ(tbl, next_state, get_actions(vocab, next_state))))

\* The ranking score: an equal blend of the learned value and the raw overall score.
BlendScore(q, overall) == (q + overall) \div 2

\* agent.rank_supplier(exploration=False): exploit only, no learning.
rank_supplier(tbl, vocab, metrics, supplier_id) ==
    LET state == get_state_from_metrics(metrics)
        action == BestAction(tbl, state, get_actions(vocab, state))
    IN  [action |-> action,
         ranking |-> [supplier_id |-> supplier_id, state |-> state,
                      overall_score |-> BlendScore(QGet(tbl, state, action),
                                                   metrics.overall_score)]]

(* ------------------------------- state -------------------------------- *)
VARIABLES
    vocabulary,        \* the configured action vocabulary (QLearningAction rows)
    supplier_metrics,  \* MetricsService.calculate_combined_metrics, per known supplier
    q_table,           \* the committed QTableEntry rows
    fb,                \* per worker: the feedback request it is serving
    batch,             \* the batch-training request and its open transaction
    query_resp,        \* the last response of a read-only query (ranking, Q-values)
    applied,           \* history: the learning updates committed so far
    nlearn             \* history: learning requests taken on so far

vars == <<vocabulary, supplier_metrics, q_table, fb, batch, query_resp, applied, nlearn>>

\* The metrics a supplier may currently have: a strong and a weak profile.
Profile(q, d, p, s) ==
    [quality_score |-> q, delivery_score |-> d, price_score |-> p,
     service_score |-> s, overall_score |-> Overall(q, d, p, s)]
Profiles == {Profile(900, 800, 700, 1000), Profile(300, 300, 700, 300)}

IdleWorker ==
    [pc |-> "idle", input |-> <<>>, metrics |-> None, state |-> None, action |-> None,
     reward |-> None, next_state |-> None, status |-> 0, q_value |-> None]
IdleBatch ==
    [pc |-> "idle", iterations |-> 0, remaining |-> 0, supplier_ids |-> {},
     writes |-> <<>>, pending |-> {}, succeeded |-> 0, failed |-> 0, status |-> 0]
NoResponse == [kind |-> "none", status |-> 0]

Init ==
    /\ vocabulary \in Vocabularies
    /\ supplier_metrics \in [Suppliers -> Profiles]
    /\ q_table = <<>>
    /\ fb = [w \in Workers |-> IdleWorker]
    /\ batch = IdleBatch
    /\ query_resp = NoResponse
    /\ applied = {}
    /\ nlearn = 0

(* --------------------------- FeedbackView.post ------------------------ *)
Request(sid, pid, rating, days, issues) ==
    [supplier_id |-> sid, product_id |-> pid, quality_rating |-> rating,
     delivery_time_days |-> days, issues |-> issues]
\* The feedback requests clients send: well-formed ones for known and unknown
\* suppliers, and ones with a required field absent or zero.
FeedbackRequests ==
    { Request(s, 1, q, 2, 0) : s \in Suppliers \cup {UnknownSupplier}, q \in {2, 9} }
    \cup { Request(None, 1, 9, 2, 0), Request(1, None, 9, 2, 0),
           Request(1, 1, None, 2, 0), Request(1, 1, 0, 2, 0) }

RankTierIndexes(actions) == {i \in DOMAIN actions : IsRankTier(actions[i])}
\* "for a in actions: if a.name.startswith('RANK_TIER_'): action = a; break"
FirstRankTier(actions) ==
    actions[CHOOSE i \in RankTierIndexes(actions) :
                \A j \in RankTierIndexes(actions) : i <= j]

Failed(code) == [IdleWorker EXCEPT !.pc = "done", !.status = code]

\* environment.next_state: the state re-derived from the supplier's most recent metrics.
next_state(supplier_id) == get_state_from_metrics(supplier_metrics[supplier_id])

\* A buggy handler that creates the entry of the chosen action as soon as the
\* action is chosen, before the reward and next-state lookups.
FeedbackReceiveEager(w, r) ==
    /\ fb[w].pc = "idle"
    /\ \A v \in Workers : v < w => fb[v].pc # "idle"
    /\ nlearn < MaxLearn
    /\ nlearn' = nlearn + 1
    /\ LET metrics == FeedbackMetrics(r.quality_rating, r.delivery_time_days, r.issues)
           state == get_state_from_metrics(metrics)
           actions == get_actions(vocabulary, state)
       IN  /\ Truthy(r.supplier_id) /\ Truthy(r.product_id) /\ Truthy(r.quality_rating)
           /\ get_supplier(r.supplier_id) # <<>>
           /\ RankTierIndexes(actions) # {}
           /\ q_table' = IF HasEntry(q_table, state, FirstRankTier(actions)) THEN q_table
                          ELSE Append(q_table, [state |-> state,
                                                action |-> FirstRankTier(actions),
                                                q_value |-> 0, update_count |-> 0])
           /\ \/ \E reward \in RewardValues :
                     fb' = [fb EXCEPT ![w] =
                             [IdleWorker EXCEPT !.pc = "evaluated",
                                                !.input = <<r.quality_rating,
                                                            r.delivery_time_days,
                                                            r.issues>>,
                                                !.metrics = metrics, !.state = state,
                                                !.action = FirstRankTier(actions),
                                                !.reward = reward,
                                                !.next_state = next_state(r.supplier_id)]]
              \/ fb' = [fb EXCEPT ![w] = Failed(500)]
    /\ UNCHANGED <<vocabulary, supplier_metrics, batch, query_resp, applied>>

\* Lines 34-107, everything the handler does before it learns: read the request
\* and reject it when a required field is missing (400); look the supplier up
\* (404); derive metrics, state and candidate actions; choose the first rank-tier
\* action (400 when there is none); get the reward and the next state, a failure
\* of either propagating out of the handler (500).
\* Threads are numbered in the order their requests arrive.
FeedbackReceive(w, r) ==
    /\ fb[w].pc = "idle"
    /\ \A v \in Workers : v < w => fb[v].pc # "idle"
    /\ nlearn < MaxLearn
    /\ nlearn' = nlearn + 1
    /\ LET supplier == get_supplier(r.supplier_id)
           metrics == FeedbackMetrics(r.quality_rating, r.delivery_time_days, r.issues)
           state == get_state_from_metrics(metrics)
           actions == get_actions(vocabulary, state)
       IN  IF ~(Truthy(r.supplier_id) /\ Truthy(r.product_id) /\ Truthy(r.quality_rating))
           THEN fb' = [fb EXCEPT ![w] = Failed(400)]
           ELSE IF supplier = <<>>
           THEN fb' = [fb EXCEPT ![w] = Failed(404)]
           ELSE IF RankTierIndexes(actions) = {}
           THEN fb' = [fb EXCEPT ![w] = Failed(400)]
           ELSE \/ \E reward \in RewardValues :
                     fb' = [fb EXCEPT ![w] =
                             [IdleWorker EXCEPT !.pc = "evaluated",
                                                !.input = <<r.quality_rating,
                                                            r.delivery_time_days,
                                                            r.issues>>,
                                                !.metrics = metrics, !.state = state,
                                                !.action = FirstRankTier(actions),
                                                !.reward = reward,
                                                !.next_state = next_state(r.supplier_id)]]
                \/ fb' = [fb EXCEPT ![w] = Failed(500)]
    /\ UNCHANGED <<vocabulary, supplier_metrics, q_table, batch, query_resp, applied>>

\* The keys the open batch transaction has written and still holds locked.
Locked(s, a) == HasEntry(batch.writes, s, a)

Update(id, tbl, state, action, reward, nxt) ==
    [id |-> id, state |-> state, action |-> action, reward |-> reward,
     max_next |-> MaxQ(tbl, nxt, get_actions(vocabulary, nxt))]

\* A fresh number for the history record of an update.
NextId == Cardinality(applied \cup batch.pending) + 1

\* A buggy handler that passes the current state where the next state belongs.
FeedbackLearnWrongNext(w) ==
    /\ fb[w].pc = "evaluated"
    /\ ~Locked(fb[w].state, fb[w].action)
    /\ q_table' = learn(q_table, vocabulary, fb[w].state, fb[w].action,
                        fb[w].reward, fb[w].state)
    /\ fb' = [fb EXCEPT ![w].pc = "done", ![w].status = 200,
                        ![w].q_value = QGet(q_table', fb[w].state, fb[w].action)]
    /\ applied' = applied \cup
                    {Update(NextId, q_table, fb[w].state, fb[w].action,
                            fb[w].reward, fb[w].next_state)}
    /\ UNCHANGED <<vocabulary, supplier_metrics, batch, query_resp, nlearn>>

\* Lines 110-129: agent.learn, the only write of the handler, and the response.
FeedbackLearn(w) ==
    /\ fb[w].pc = "evaluated"
    /\ ~Locked(fb[w].state, fb[w].action)
    /\ q_table' = learn(q_table, vocabulary, fb[w].state, fb[w].action,
                        fb[w].reward, fb[w].next_state)
    /\ fb' = [fb EXCEPT ![w].pc = "done", ![w].status = 200,
                        ![w].q_value = QGet(q_table', fb[w].state, fb[w].action)]
    /\ applied' = applied \cup
                    {Update(NextId,
                            q_table, fb[w].state, fb[w].action,
                            fb[w].reward, fb[w].next_state)}
    /\ UNCHANGED <<vocabulary, supplier_metrics, batch, query_resp, nlearn>>

(* ------------------------ ManualTrainingView.post --------------------- *)
\* The rows of a transaction's write set laid over the committed rows.
RECURSIVE Merge(_, _)
Merge(tbl, writes) ==
    IF writes = <<>> THEN tbl
    ELSE LET row == Head(writes)
             base == IF HasEntry(tbl, row.state, row.action)
                     THEN [i \in DOMAIN tbl |->
                             IF i \in Rows(tbl, row.state, row.action) THEN row ELSE tbl[i]]
                     ELSE Append(tbl, row)
         IN  Merge(base, Tail(writes))

\* The supplier_ids a training request names; all known suppliers when it names none.
TrainingSets == {Suppliers, {1, UnknownSupplier}}

\* Lines 226-236: @transaction.atomic opens the transaction, the parameters are read.
TrainingStart(iterations, supplier_ids) ==
    /\ batch.pc = "idle"
    /\ nlearn + iterations <= MaxLearn
    /\ nlearn' = nlearn + iterations
    /\ batch' = [IdleBatch EXCEPT !.pc = "training", !.iterations = iterations,
                                  !.remaining = iterations,
                                  !.supplier_ids = supplier_ids]
    /\ UNCHANGED <<vocabulary, supplier_metrics, q_table, fb, query_resp, applied>>

\* agent.batch_train, one iteration: sample a supplier, replay its metrics and
\* learn with exploration on (any candidate action may be chosen). An iteration
\* that fails is skipped and the loop goes on.
TrainingIterate ==
    /\ batch.pc = "training"
    /\ batch.remaining > 0
    /\ \E s \in batch.supplier_ids :
        \/ batch' = [batch EXCEPT !.remaining = @ - 1, !.failed = @ + 1]
        \/ /\ s \in Suppliers
           /\ LET state == get_state_from_metrics(supplier_metrics[s])
                  actions == get_actions(vocabulary, state)
                  view == Merge(q_table, batch.writes)
              IN  \E i \in DOMAIN actions, r \in RewardValues :
                    LET new == learn(view, vocabulary, state, actions[i], r, next_state(s))
                    IN  batch' = [batch EXCEPT
                            !.remaining = @ - 1,
                            !.succeeded = @ + 1,
                            !.writes = Merge(@, <<Entry(new, state, actions[i])>>),
                            !.pending = @ \cup
                                {Update(NextId,
                                        view, state, actions[i], r, next_state(s))}]
    /\ UNCHANGED <<vocabulary, supplier_metrics, q_table, fb, query_resp, applied, nlearn>>

\* A buggy end of request that rolls the transaction back when an iteration failed.
TrainingRollbackOnFailure ==
    /\ batch.pc = "training"
    /\ batch.remaining = 0
    /\ q_table' = IF batch.failed > 0 THEN q_table ELSE Merge(q_table, batch.writes)
    /\ applied' = IF batch.failed > 0 THEN applied ELSE applied \cup batch.pending
    /\ batch' = [batch EXCEPT !.pc = "done", !.status = 200, !.writes = <<>>]
    /\ UNCHANGED <<vocabulary, supplier_metrics, fb, query_resp, nlearn>>
\* Lines 239-252: batch_train has returned; the handler returns normally, so the
\* transaction commits whatever the iterations wrote.
TrainingFinish ==
    /\ batch.pc = "training"
    /\ batch.remaining = 0
    /\ q_table' = Merge(q_table, batch.writes)
    /\ applied' = applied \cup batch.pending
    /\ batch' = [batch EXCEPT !.pc = "done", !.status = 200, !.writes = <<>>]
    /\ UNCHANGED <<vocabulary, supplier_metrics, fb, query_resp, nlearn>>

TrainingRespond ==
    /\ batch.pc = "done"
    /\ batch' = IdleBatch
    /\ UNCHANGED <<vocabulary, supplier_metrics, q_table, fb, query_resp, applied, nlearn>>

(* ------------------------ SupplierRankingView.get --------------------- *)
\* Python's list.sort(key=score, reverse=True): descending, and stable, so rows
\* of equal score keep the order they were appended in.
InsertByScore(sorted, x) ==
    LET k == Cardinality({i \in DOMAIN sorted : sorted[i].score >= x.score})
    IN  SubSeq(sorted, 1, k) \o <<x>> \o SubSeq(sorted, k + 1, Len(sorted))
RECURSIVE SortByScore(_)
SortByScore(rows) ==
    IF rows = <<>> THEN <<>>
    ELSE InsertByScore(SortByScore(SubSeq(rows, 1, Len(rows) - 1)), rows[Len(rows)])

\* Lines 162-200, the body of the loop for one listed supplier id: <<row>>, or
\* <<>> when the supplier is skipped. city "" is an absent city filter.
RankedRow(tbl, vocab, metrics, city, supplier_id) ==
    LET supplier == get_supplier(supplier_id)
    IN  IF supplier = <<>> THEN <<>>
        ELSE IF city # "" /\ supplier[1].city # city THEN <<>>
        ELSE LET r == rank_supplier(tbl, vocab, metrics[supplier_id], supplier_id)
             IN  <<[supplier_id |-> r.ranking.supplier_id,
                    score |-> r.ranking.overall_score,
                    state |-> r.ranking.state,
                    best_action |-> r.action,
                    q_value |-> QGet(tbl, r.ranking.state, r.action)]>>

RECURSIVE RankedRows(_, _, _, _, _)
RankedRows(tbl, vocab, metrics, city, listing) ==
    IF listing = <<>> THEN <<>>
    ELSE RankedRow(tbl, vocab, metrics, city, Head(listing))
            \o RankedRows(tbl, vocab, metrics, city, Tail(listing))

\* The "suppliers" list of the response.
RankedSuppliers(tbl, vocab, metrics, city, listing) ==
    SortByScore(RankedRows(tbl, vocab, metrics, city, listing))

\* Every order in which a set of supplier ids can be listed.
Listings(S) ==
    {f \in [1..Cardinality(S) -> S] : \A i, j \in 1..Cardinality(S) : f[i] = f[j] => i = j}
\* get_suppliers_by_product: the candidate listings of a product.
CandidateSets == {{}, Suppliers, Suppliers \cup {UnknownSupplier}}

\* A buggy handler that fetches each entry with get_or_create, leaving a default
\* entry behind for every ranked key that had none.
RECURSIVE CreateMissing(_, _)
CreateMissing(tbl, rows) ==
    IF rows = <<>> THEN tbl
    ELSE CreateMissing(
            IF HasEntry(tbl, Head(rows).state, Head(rows).best_action) THEN tbl
            ELSE Append(tbl, [state |-> Head(rows).state,
                              action |-> Head(rows).best_action,
                              q_value |-> 0, update_count |-> 0]),
            Tail(rows))
RankingQueryCreating(product_id, city, listing) ==
    /\ query_resp' =
         IF ~Truthy(product_id) THEN [kind |-> "ranking", status |-> 400]
         ELSE [kind |-> "ranking", status |-> 200, city |-> city,
               candidates |-> {listing[i] : i \in DOMAIN listing},
               suppliers |-> RankedSuppliers(q_table, vocabulary, supplier_metrics,
                                             city, listing)]
    /\ q_table' = IF ~Truthy(product_id) THEN q_table
                  ELSE CreateMissing(q_table, query_resp'.suppliers)
    /\ UNCHANGED <<vocabulary, supplier_metrics, fb, batch, applied, nlearn>>

\* Lines 138-216.
RankingQuery(product_id, city, listing) ==
    /\ query_resp' =
         IF ~Truthy(product_id) THEN [kind |-> "ranking", status |-> 400]
         ELSE IF listing = <<>> THEN [kind |-> "ranking", status |-> 200, city |-> city,
                                      candidates |-> {}, suppliers |-> <<>>]
         ELSE [kind |-> "ranking", status |-> 200, city |-> city,
               candidates |-> {listing[i] : i \in DOMAIN listing},
               suppliers |-> RankedSuppliers(q_table, vocabulary, supplier_metrics,
                                             city, listing)]
    /\ UNCHANGED <<vocabulary, supplier_metrics, q_table, fb, batch, applied, nlearn>>

(* ----------------------------- QValueView.get ------------------------- *)
\* A buggy row that reports the default whether or not the entry exists.
QValueRowDefault(tbl, state, action) ==
    [action |-> action, q_value |-> 0, update_count |-> 0]
\* Lines 283-298: one row per candidate action, the stored entry or the default.
QValueRow(tbl, state, action) ==
    IF HasEntry(tbl, state, action)
    THEN [action |-> action, q_value |-> Entry(tbl, state, action).q_value,
          update_count |-> Entry(tbl, state, action).update_count]
    ELSE [action |-> action, q_value |-> 0, update_count |-> 0]
QValueRows(tbl, vocab, state) ==
    [i \in DOMAIN get_actions(vocab, state) |->
        QValueRow(tbl, state, get_actions(vocab, state)[i])]

\* Lines 261-324.
QValueQuery(supplier_id) ==
    /\ query_resp' =
         IF ~Truthy(supplier_id) THEN [kind |-> "q_values", status |-> 400]
         ELSE IF supplier_id \notin Suppliers THEN [kind |-> "q_values", status |-> 500]
         ELSE LET state == get_state_from_metrics(supplier_metrics[supplier_id])
              IN  [kind |-> "q_values", status |-> 200, supplier_id |-> supplier_id,
                   state |-> state,
                   q_values |-> QValueRows(q_table, vocabulary, state)]
    /\ UNCHANGED <<vocabulary, supplier_metrics, q_table, fb, batch, applied, nlearn>>

Feedback(w) ==
    \/ \E r \in FeedbackRequests : FeedbackReceive(w, r)
    \/ FeedbackLearn(w)

Training ==
    \/ \E n \in 1..MaxLearn, ids \in TrainingSets : TrainingStart(n, ids)
    \/ TrainingIterate
    \/ TrainingFinish
    \/ TrainingRespond

\* The response of a query leaves for the client.
QueryRespond ==
    /\ query_resp # NoResponse
    /\ query_resp' = NoResponse
    /\ UNCHANGED <<vocabulary, supplier_metrics, q_table, fb, batch, applied, nlearn>>

Queries ==
    \/ RankingQuery(None, "", <<>>)
    \/ \E c \in {"", "colombo"}, S \in CandidateSets :
         \E l \in Listings(S) : RankingQuery(1, c, l)
    \/ \E s \in Suppliers \cup {None, UnknownSupplier} : QValueQuery(s)

\* The writers: every worker serving feedback, and batch training.
Next == (\E w \in Workers : Feedback(w)) \/ Training
Spec == Init /\ [][Next]_vars

\* One worker, batch training and the read-only queries. A query is answered and
\* its response delivered in consecutive steps: no handler reads a response, so
\* the steps taken while one is on its way are the same without it.
NextQueries ==
    \/ query_resp = NoResponse /\ (Feedback(1) \/ Training \/ Queries)
    \/ QueryRespond
SpecQueries == Init /\ [][NextQueries]_vars

(* ------------- the feedback handler alone, over a stored table --------- *)
\* A table persisted by earlier runs: empty, or one entry per action for the
\* state of the strong profile, holding the given values.
StrongState == get_state_from_metrics(Profile(900, 800, 700, 1000))
SeedValues == {<<500, 600>>, <<-300, 0>>}
SeedTable(vocab, v) ==
    [i \in DOMAIN vocab |->
        [state |-> StrongState, action |-> vocab[i], q_value |-> v[i], update_count |-> 1]]
InitStored ==
    /\ vocabulary \in Vocabularies
    /\ supplier_metrics \in [Suppliers -> Profiles]
    /\ q_table \in {<<>>} \cup {SeedTable(vocabulary, v) : v \in SeedValues}
    /\ fb = [w \in Workers |-> IdleWorker]
    /\ batch = IdleBatch
    /\ query_resp = NoResponse
    /\ applied = {}
    /\ nlearn = 0

\* Feedback over the whole range of each input: absent, zero, negative, inside
\* and beyond the scale.
WideRequests ==
    { Request(s, 1, q, d, i) :
        s \in {1, UnknownSupplier}, q \in {None, 0, -5, 1, 2, 9, 15},
        d \in {None, 0, 2, 8, 12}, i \in {0, 1, 3, 6} }

NextFeedback ==
    \/ \E r \in WideRequests : FeedbackReceive(1, r)
    \/ FeedbackLearn(1)
SpecFeedback == InitStored /\ [][NextFeedback]_vars

(* ============================== claims ================================ *)
OpsOn(state, action) == {o \in applied : o.state = state /\ o.action = action}

\* The values the rule can leave after applying the updates ops, one after the
\* other in any order, starting from q.
RECURSIVE SerialValues(_, _)
SerialValues(ops, q) ==
    IF ops = {} THEN {q}
    ELSE UNION {SerialValues(ops \ {o}, QRule(q, o.reward, o.max_next)) : o \in ops}

\* C1: per-key atomicity. Every committed update has its entry; an entry's
\* update_count is the number of updates committed to its key and its value is
\* what the rule leaves when those updates are applied one after the other, from
\* 0.0, in some order: no update is lost.
C1_PerKeyAtomicity ==
    /\ \A o \in applied : HasEntry(q_table, o.state, o.action)
    /\ \A i \in DOMAIN q_table :
        LET ops == OpsOn(q_table[i].state, q_table[i].action)
        IN  /\ q_table[i].update_count = Cardinality(ops)
            /\ q_table[i].q_value \in SerialValues(ops, 0)

\* Two feedback requests in flight together have both updated the same key, with
\* different rewards.
C1_Witness ==
    /\ \A w \in {1, 2} : fb[w].pc = "done" /\ fb[w].status = 200
    /\ fb[1].state = fb[2].state /\ fb[1].action = fb[2].action
    /\ fb[1].reward # fb[2].reward
    /\ Entry(q_table, fb[1].state, fb[1].action).update_count = 2

\* C2: a feedback request is all-or-nothing. The step a request fails in leaves
\* the Q-table as it was, and so does every step of the handler before the
\* learn step; the table changes only in the step that ends a request with 200,
\* taken after all lookups.
C2_FailureWritesNothing ==
    [][\A w \in Workers :
        /\ (fb[w].pc = "idle" /\ fb'[w].pc # "idle") => q_table' = q_table
        /\ (fb[w].pc # "done" /\ fb'[w].pc = "done" /\ fb'[w].status # 200)
                => q_table' = q_table
        /\ (fb[w].pc # "done" /\ fb'[w].pc = "done" /\ fb'[w].status = 200)
                => fb[w].pc = "evaluated"]_vars

\* A request has failed in its reward or next-state lookup while the table holds
\* what another request learned.
C2_Witness ==
    /\ \E w \in Workers : fb[w].pc = "done" /\ fb[w].status = 500
    /\ \E w \in Workers : fb[w].pc = "done" /\ fb[w].status = 200
    /\ Len(q_table) = 1

\* C3: in the list a ranking query returns, two suppliers of equal score appear
\* in ascending supplier_id order.
C3_TieBreakBySupplierId ==
    (query_resp.kind = "ranking" /\ query_resp.status = 200) =>
        \A i, j \in DOMAIN query_resp.suppliers :
            (i < j /\ query_resp.suppliers[i].score = query_resp.suppliers[j].score)
                => query_resp.suppliers[i].supplier_id < query_resp.suppliers[j].supplier_id

\* C4: with the Q-table and the metrics as they are, a ranking query returns the
\* same list whatever the order in which the candidate suppliers are listed.
C4_RankingDeterminism ==
    (query_resp.kind = "ranking" /\ query_resp.status = 200) =>
        \A l \in Listings(query_resp.candidates) :
            RankedSuppliers(q_table, vocabulary, supplier_metrics, query_resp.city, l)
                = query_resp.suppliers

\* The stored value of a key, 0.0 when it was never written.
StoredValue(tbl, state, action) ==
    IF \E i \in DOMAIN tbl : tbl[i].state = state /\ tbl[i].action = action
    THEN (CHOOSE row \in {tbl[i] : i \in DOMAIN tbl} :
            row.state = state /\ row.action = action).q_value
    ELSE 0

\* C5: the update rule. The value a feedback event writes for (state, action)
\* and returns as q_value is old_q + 0.1 * (reward + 0.9 * max_next - old_q) on
\* the fixed-point grid, max_next being the largest value stored for next_state
\* over its candidate actions; old 5.0, reward 8.0, max_next 6.0 give 5.84.
C5_UpdateRule ==
    [][\A w \in Workers :
        (fb[w].pc = "evaluated" /\ fb'[w].pc = "done") =>
            LET old == StoredValue(q_table, fb[w].state, fb[w].action)
                new == fb'[w].q_value
                cands == get_actions(vocabulary, fb[w].next_state)
                nexts == {StoredValue(q_table, fb[w].next_state, cands[i]) :
                            i \in DOMAIN cands}
            IN  /\ StoredValue(q_table', fb[w].state, fb[w].action) = new
                /\ \E mx \in nexts :
                    /\ \A v \in nexts : v <= mx
                    /\ 10000 * new <= 10000 * old
                                        + 10 * (100 * fb[w].reward + 90 * mx - 100 * old)
                    /\ 10000 * (new + 1) > 10000 * old
                                        + 10 * (100 * fb[w].reward + 90 * mx - 100 * old)
                    /\ (old = 500 /\ fb[w].reward = 800 /\ mx = 600) => new = 584]_vars

\* A feedback event with reward 8.0 has raised a stored 5.0 to 5.84.
C5_Witness ==
    \E w \in Workers :
        /\ fb[w].pc = "done" /\ fb[w].status = 200
        /\ fb[w].reward = 800 /\ fb[w].q_value = 584
        /\ fb[w].next_state = StrongState
        /\ StoredValue(q_table, fb[w].state, fb[w].action) = 584

\* C6: key uniqueness. The Q-table never holds two entries for one
\* (State, Action) pair, and no step removes the entry of a key.
C6_KeyUniqueness ==
    /\ [](\A i, j \in DOMAIN q_table :
            (q_table[i].state = q_table[j].state /\ q_table[i].action = q_table[j].action)
                => i = j)
    /\ [][\A i \in DOMAIN q_table :
            \E j \in DOMAIN q_table' :
                q_table'[j].state = q_table[i].state
                    /\ q_table'[j].action = q_table[i].action]_vars

\* Two requests wrote a key that had no entry, and it has one entry.
C6_Witness ==
    /\ \A w \in {1, 2} : fb[w].pc = "done" /\ fb[w].status = 200
    /\ fb[1].state = fb[2].state /\ fb[1].action = fb[2].action
    /\ Cardinality({i \in DOMAIN q_table :
                        q_table[i].state = fb[1].state
                            /\ q_table[i].action = fb[1].action}) = 1
    /\ Len(q_table) = 1

\* The keys written so far.
Written == {<<o.state, o.action>> : o \in applied}

\* C7: default value semantics. A Q-value inspection reports value 0.0 with
\* update_count 0 for a key exactly when the key was never written, and
\* update_count >= 1 for every key that was written.
C7_DefaultValueSemantics ==
    (query_resp.kind = "q_values" /\ query_resp.status = 200) =>
        \A i \in DOMAIN query_resp.q_values :
            LET row == query_resp.q_values[i]
                written == <<query_resp.state, row.action>> \in Written
            IN  /\ (row.q_value = 0 /\ row.update_count = 0) <=> ~written
                /\ written => row.update_count >= 1

\* An inspection has reported a written key beside a never-written one.
C7_Witness ==
    /\ query_resp.kind = "q_values" /\ query_resp.status = 200
    /\ \E i, j \in DOMAIN query_resp.q_values :
        /\ query_resp.q_values[i].update_count >= 1
        /\ query_resp.q_values[j].update_count = 0

\* C8: batch training is best-effort. When the request ends, every iteration it
\* asked for has run, failed ones included, and every update of an iteration
\* that succeeded is stored.
C8_BatchBestEffort ==
    batch.pc = "done" =>
        /\ batch.remaining = 0
        /\ batch.succeeded + batch.failed = batch.iterations
        /\ Cardinality(batch.pending) = batch.succeeded
        /\ \A o \in batch.pending :
            /\ HasEntry(q_table, o.state, o.action)
            /\ Entry(q_table, o.state, o.action).update_count
                 >= Cardinality({p \in batch.pending :
                                    p.state = o.state /\ p.action = o.action})

\* A batch has ended after one iteration failed and a later one succeeded.
C8_Witness ==
    /\ batch.pc = "done"
    /\ batch.failed >= 1
    /\ batch.succeeded >= 1

ClampScore(x) == IF x < 100 THEN 100 ELSE IF x > 1000 THEN 1000 ELSE x
Accepted(w) == fb[w].pc = "evaluated" \/ (fb[w].pc = "done" /\ fb[w].status = 200)

\* C9, as amended: quality_score = 10 * quality_rating, delivery_score = 10 -
\* delivery_time_days with an absent or zero delivery_time_days counted as 1,
\* price_score = 7.0 and service_score = 10 - 2 * issues, each clamped to
\* [1, 10]; overall_score is their mean, so all five lie in [1, 10]; rating 0.9,
\* 2 days and no issue give 9.0, 8.0, 7.0, 10.0 and 8.5.
C9_FeedbackNormalization ==
    \A w \in Workers :
        Accepted(w) =>
            LET rating == fb[w].input[1]
                days == fb[w].input[2]
                issues == fb[w].input[3]
                m == fb[w].metrics
            IN  /\ m.quality_score = ClampScore(100 * rating)
                /\ m.delivery_score =
                     ClampScore(1000 - 100 * (IF days \in {None, 0} THEN 1 ELSE days))
                /\ m.price_score = 700
                /\ m.service_score = ClampScore(1000 - 200 * issues)
                /\ 4 * m.overall_score = m.quality_score + m.delivery_score
                                            + m.price_score + m.service_score
                /\ \A x \in {m.quality_score, m.delivery_score, m.price_score,
                             m.service_score, m.overall_score} : 100 <= x /\ x <= 1000
                /\ (rating = 9 /\ days = 2 /\ issues = 0) =>
                     m = [quality_score |-> 900, delivery_score |-> 800,
                          price_score |-> 700, service_score |-> 1000,
                          overall_score |-> 850]

\* Feedback with issues, and with no delivery time, has been normalized.
C9_Witness ==
    \E w \in Workers :
        /\ Accepted(w)
        /\ fb[w].input = <<9, None, 3>>
        /\ fb[w].metrics.service_score = 400
        /\ fb[w].metrics.delivery_score = 900

\* C9, as first stated: service_score = 10 - issues and delivery_score = 10 -
\* delivery_time_days, each clamped to [1, 10].
C9_AsStated ==
    \A w \in Workers :
        Accepted(w) =>
            /\ fb[w].metrics.quality_score = ClampScore(100 * fb[w].input[1])
            /\ fb[w].input[2] # None =>
                 fb[w].metrics.delivery_score = ClampScore(1000 - 100 * fb[w].input[2])
            /\ fb[w].metrics.price_score = 700
            /\ fb[w].metrics.service_score = ClampScore(1000 - 100 * fb[w].input[3])

\* C10: a ranking query does no learning. The step that answers a ranking query
\* leaves every entry, value and update_count of the Q-table as it was.
C10_RankingWritesNothing ==
    [][query_resp'.kind = "ranking" => q_table' = q_table]_vars

\* A ranking of two suppliers has been answered over a table that holds entries.
C10_Witness ==
    /\ query_resp.kind = "ranking" /\ query_resp.status = 200
    /\ Len(query_resp.suppliers) >= 2
    /\ q_table # <<>>

====
